---------------------------- MODULE Spec2Model ----------------------------
(***************************************************************************)
(* The checkout page of scholarstream-client (src/pages/Checkout.jsx):     *)
(* the Checkout loader, the CheckoutForm component state, the payment      *)
(* intent effect and the async onSubmit workflow, one action per handler   *)
(* or promise continuation.                                                *)
(***************************************************************************)
EXTENDS Integers, Sequences, FiniteSets, TLC

\* ------------------------------------------------------------------ bounds
MaxChanges == 1
MaxSubmits == 2

\* A fee field the scholarship record does not carry (undefined in JS).
Missing == -1

\* Values of the two fee fields: missing, zero and a positive amount, so that
\* totals 0, 1 and 2 occur and one total is reached from different fees.
ApplicationFees == {Missing, 0, 1}
ServiceCharges == {Missing, 1}

\* Error messages the payment provider can return from createPaymentMethod
\* and from confirmCardPayment.
MethodMsgs == {"Your card number is incomplete"}
ConfirmMsgs == {"Your card was declined"}

\* Payment-intent ids the provider can return.
PiIds == {"pi_123"}

SubIds == 1 .. MaxSubmits

VARIABLES
    page,             \* what Checkout / the router renders
    scholarship,      \* useQuery data (prop of CheckoutForm)
    changes,          \* number of refetches that changed the record
    stripe,           \* useStripe() is non-null
    elements,         \* useElements() is non-null
    cardMounted,      \* elements.getElement(CardElement) is non-null
    processing,       \* useState(false)
    clientSecret,     \* useState(''): 0 is '', n > 0 the handle of request n
    submitDisabled,   \* the disabled attribute of the submit button as rendered
    intentPosts,      \* POST /create-payment-intent requests issued, in order
    intentPending,    \* requests not yet answered
    subs,             \* one record per run of onSubmit
    nsub,             \* number of runs of onSubmit so far
    applicationPosts, \* POST /applications requests issued
    applications,     \* application records the backend accepted
    paymentPosts,     \* POST /payments requests issued
    payments,         \* payment records the backend accepted
    toasts,           \* toast.error notifications shown by onSubmit
    intentToasts,     \* requests whose failure was shown by toast.error
    navigations       \* navigate(...) calls

vars == <<page, scholarship, changes, stripe, elements, cardMounted, processing,
          clientSecret, submitDisabled, intentPosts, intentPending, subs, nsub,
          applicationPosts, applications, paymentPosts, payments, toasts,
          intentToasts, navigations>>

\* ---------------------------------------------------------------- helpers

\* JS `x || 0` on a fee field: undefined and 0 are falsy.
OrZero(x) == IF x = Missing \/ x = 0 THEN 0 ELSE x

\* Variant: a missing service charge is added as it is.
TotalAmount_NoDefault(s) == OrZero(s.applicationFees) + s.serviceCharge
\* const totalAmount = (applicationFees || 0) + (serviceCharge || 0)
TotalAmount(s) == OrZero(s.applicationFees) + OrZero(s.serviceCharge)

\* Checkout's own totalAmount, shown as the Total of the order summary.
SummaryTotal(s) == OrZero(s.applicationFees) + OrZero(s.serviceCharge)

\* The label of the submit button when not processing: Pay ${totalAmount}.
PayButtonTotal(s) == TotalAmount(s)

Scholarships ==
    [scholarshipName : {"Merit Award"}, universityName : {"Uni"},
     applicationFees : ApplicationFees, serviceCharge : ServiceCharges]

NoScholarship ==
    [scholarshipName |-> "", universityName |-> "",
     applicationFees |-> Missing, serviceCharge |-> Missing]

mounted == page = "checkout"

\* disabled={!stripe || !clientSecret || processing}
\* Variant: the button forgets the processing flag.
SubmitDisabled_IgnoresProcessing(st, cs, pr) == ~st \/ cs = 0
SubmitDisabled(st, cs, pr) == ~st \/ cs = 0 \/ pr

\* The dependency array [totalAmount, axiosSecure].  useAxiosSecure hands out
\* one axios instance for the life of the page, so that dependency is stable.
AxiosSecureChanged == FALSE

\* useEffect(..., [totalAmount, axiosSecure]): the effect runs on mount and
\* when a dependency differs from the previous render; its body posts only
\* if (totalAmount > 0).
\* Variant: the guard lets a total of zero through.
EffectPosts_ZeroToo(wasMounted, oldTotal, newTotal) ==
    /\ ~wasMounted \/ oldTotal /= newTotal
    /\ newTotal >= 0
\* Variant: the effect without its dependency array (runs after every render).
EffectPosts_NoDeps(wasMounted, oldTotal, newTotal) == newTotal > 0
EffectPosts(wasMounted, oldTotal, newTotal) ==
    /\ ~wasMounted \/ oldTotal /= newTotal \/ AxiosSecureChanged
    /\ newTotal > 0

\* axiosSecure.post('/create-payment-intent', { amount: totalAmount })
IntentRequest(total) == [amount |-> total]

\* A render of CheckoutForm with record s and state (st, cs, pr), and the
\* effects that run after it; `pending` are the requests still unanswered.
Render(wasMounted, oldTotal, s, st, cs, pr, pending) ==
    /\ submitDisabled' = SubmitDisabled(st, cs, pr)
    /\ IF EffectPosts(wasMounted, oldTotal, TotalAmount(s))
       THEN /\ intentPosts' = Append(intentPosts, IntentRequest(TotalAmount(s)))
            /\ intentPending' = pending \cup {Len(intentPosts) + 1}
       ELSE /\ intentPosts' = intentPosts
            /\ intentPending' = pending

\* A re-render caused by a state update: the scholarship prop is the same.
\* Nothing is rendered once the form has left the page.
Rerender(onPage, st, cs, pr) ==
    IF onPage
    THEN Render(TRUE, TotalAmount(scholarship), scholarship, st, cs, pr,
                intentPending)
    ELSE UNCHANGED <<submitDisabled, intentPosts, intentPending>>

NoSub ==
    [pc |-> "none", exit |-> "none", method |-> "none", confirm |-> "none",
     message |-> "", paymentIntent |-> "", clientSecret |-> 0, totalAmount |-> 0,
     usedSecret |-> -1, scholarship |-> NoScholarship]

\* ------------------------------------------------------------------- Init
Init ==
    /\ page = "loading"
    /\ scholarship = NoScholarship
    /\ changes = 0
    /\ stripe = FALSE
    /\ elements = FALSE
    /\ cardMounted = FALSE
    /\ processing = FALSE
    /\ clientSecret = 0
    /\ submitDisabled = TRUE
    /\ intentPosts = <<>>
    /\ intentPending = {}
    /\ subs = [i \in SubIds |-> NoSub]
    /\ nsub = 0
    /\ applicationPosts = <<>>
    /\ applications = <<>>
    /\ paymentPosts = <<>>
    /\ payments = <<>>
    /\ toasts = <<>>
    /\ intentToasts = {}
    /\ navigations = <<>>

workflow == <<subs, nsub, applicationPosts, applications, paymentPosts, payments,
              toasts, navigations>>

rendered == <<submitDisabled, intentPosts, intentPending>>

\* --------------------------------------------------------- Checkout loader

\* useQuery resolves: Checkout renders CheckoutForm, whose effect runs on mount.
ScholarshipLoaded ==
    /\ page = "loading"
    /\ \E s \in Scholarships :
          /\ scholarship' = s
          /\ Render(FALSE, 0, s, stripe, clientSecret, processing, intentPending)
    /\ page' = "checkout"
    /\ UNCHANGED <<changes, stripe, elements, cardMounted, processing, clientSecret,
                   intentToasts>>
    /\ UNCHANGED workflow

\* useQuery fails or returns nothing: the error text is rendered, no form.
ScholarshipLoadFailed ==
    /\ page = "loading"
    /\ page' = "error"
    /\ UNCHANGED <<scholarship, changes, stripe, elements, cardMounted, processing,
                   clientSecret, intentToasts>>
    /\ UNCHANGED rendered
    /\ UNCHANGED workflow

\* A refetch of the query hands CheckoutForm a new scholarship prop.
ScholarshipChanged ==
    /\ mounted
    /\ changes < MaxChanges
    /\ \E s \in Scholarships \ {scholarship} :
          /\ scholarship' = s
          /\ Render(TRUE, TotalAmount(scholarship), s, stripe, clientSecret,
                    processing, intentPending)
    /\ changes' = changes + 1
    /\ UNCHANGED <<page, stripe, elements, cardMounted, processing, clientSecret,
                   intentToasts>>
    /\ UNCHANGED workflow

\* loadStripe resolves: useStripe and useElements become non-null together.
StripeLoaded ==
    /\ ~stripe
    /\ stripe' = TRUE
    /\ elements' = TRUE
    /\ Rerender(mounted, TRUE, clientSecret, processing)
    /\ UNCHANGED <<page, scholarship, changes, cardMounted, processing, clientSecret,
                   intentToasts>>
    /\ UNCHANGED workflow

\* <CardElement> registers itself with elements.
CardElementMounted ==
    /\ mounted /\ elements /\ ~cardMounted
    /\ cardMounted' = TRUE
    /\ UNCHANGED <<page, scholarship, changes, stripe, elements, processing,
                   clientSecret, intentToasts>>
    /\ UNCHANGED rendered
    /\ UNCHANGED workflow

\* ------------------------------------------------- payment intent response

\* .then(res => setClientSecret(res.data.clientSecret))
IntentSucceeded(id) ==
    /\ id \in intentPending
    /\ IF mounted
       THEN /\ clientSecret' = id
            /\ Render(TRUE, TotalAmount(scholarship), scholarship, stripe, id,
                      processing, intentPending \ {id})
       ELSE /\ intentPending' = intentPending \ {id}
            /\ UNCHANGED <<clientSecret, submitDisabled, intentPosts>>
    /\ UNCHANGED <<page, scholarship, changes, stripe, elements, cardMounted,
                   processing, intentToasts>>
    /\ UNCHANGED workflow

\* .catch(err => toast.error('Failed to initialize payment'))
IntentFailed(id) ==
    /\ id \in intentPending
    /\ intentPending' = intentPending \ {id}
    /\ intentToasts' = intentToasts \cup {id}
    /\ UNCHANGED <<page, scholarship, changes, stripe, elements, cardMounted,
                   processing, clientSecret, submitDisabled, intentPosts>>
    /\ UNCHANGED workflow

\* ------------------------------------------------------- onSubmit (async)

\* The application record of the confirmError branch (paymentStatus 'unpaid').
UnpaidApplicationData(sch) ==
    [scholarshipName |-> sch.scholarshipName,
     universityName |-> sch.universityName,
     applicationFees |-> sch.applicationFees,
     serviceCharge |-> sch.serviceCharge,
     applicationStatus |-> "pending",
     paymentStatus |-> "unpaid"]

\* The application record of the succeeded branch (paymentStatus 'paid').
\* Variant: the succeeded branch reuses the unpaid record.
PaidApplicationData_Unpaid(sch) == UnpaidApplicationData(sch)
PaidApplicationData(sch) ==
    [scholarshipName |-> sch.scholarshipName,
     universityName |-> sch.universityName,
     applicationFees |-> sch.applicationFees,
     serviceCharge |-> sch.serviceCharge,
     applicationStatus |-> "pending",
     paymentStatus |-> "paid"]

\* await axiosSecure.post('/applications', applicationData): the requests
\* issued after run s posted `data`.
\* Variant: the request is sent twice.
PostApplication_Twice(s, data) ==
    Append(Append(applicationPosts, [sub |-> s, data |-> data]),
           [sub |-> s, data |-> data])
PostApplication(s, data) == Append(applicationPosts, [sub |-> s, data |-> data])

\* The payment record: transactionId: paymentIntent.id, amount: totalAmount.
\* Variant: the amount leaves out the service charge.
PaymentData_FeeOnly(sch, total, pi) ==
    [transactionId |-> pi, amount |-> OrZero(sch.applicationFees),
     scholarshipName |-> sch.scholarshipName]
PaymentData(sch, total, pi) ==
    [transactionId |-> pi, amount |-> total,
     scholarshipName |-> sch.scholarshipName]

\* toast.error(methodError.message)
\* Variant: the generic message instead of the provider's.
MethodErrorToast_Generic(m) == "Payment processing failed"
MethodErrorToast(m) == m

\* navigate('/payment-failed', { state: { scholarshipName, error } })
\* Variant: the generic message instead of the provider's.
FailedNavigation_Generic(sch, msg) ==
    [to |-> "/payment-failed", scholarshipName |-> sch.scholarshipName,
     universityName |-> "", error |-> "Payment processing failed", amount |-> 0,
     transactionId |-> ""]
FailedNavigation(sch, msg) ==
    [to |-> "/payment-failed", scholarshipName |-> sch.scholarshipName,
     universityName |-> "", error |-> msg, amount |-> 0, transactionId |-> ""]

\* navigate('/payment-success', { state: { scholarshipName, universityName,
\*                                         amount, transactionId } })
SuccessNavigation(sch, total, pi) ==
    [to |-> "/payment-success", scholarshipName |-> sch.scholarshipName,
     universityName |-> sch.universityName, error |-> "", amount |-> total,
     transactionId |-> pi]

\* finally { setProcessing(false) }: the value of processing after the block.
\* Variant: no finally block.
Finally_Skipped(pr) == pr
Finally(pr) == FALSE

\* onSubmit run s returns with record r and processing pr; the state update
\* is rendered if the form is still on the page.
Leave(s, r, pr, onPage) ==
    /\ subs' = [subs EXCEPT ![s] = [r EXCEPT !.pc = "done"]]
    /\ processing' = pr
    /\ Rerender(onPage, stripe, clientSecret, pr)

\* catch (err) { toast.error('Payment processing failed') } finally { ... }
Catch(s, r) ==
    /\ toasts' = Append(toasts, [sub |-> s, message |-> "Payment processing failed"])
    /\ Leave(s, [r EXCEPT !.exit = "exception"], Finally(processing), mounted)

component == <<scholarship, changes, stripe, elements, cardMounted, clientSecret,
               intentToasts>>

\* The applicant submits the form: onSubmit up to its first await.
Submit ==
    /\ mounted
    /\ ~submitDisabled
    /\ nsub < MaxSubmits
    /\ LET s == nsub + 1 IN
       IF ~stripe \/ ~elements
       THEN UNCHANGED <<subs, nsub, processing, submitDisabled, intentPosts,
                        intentPending>>
       ELSE /\ nsub' = s
            /\ IF ~cardMounted
               THEN \* setProcessing(true); card === null; setProcessing(false)
                    /\ subs' = [subs EXCEPT ![s] =
                                   [NoSub EXCEPT !.pc = "done", !.exit = "noCard"]]
                    /\ processing' = FALSE
                    /\ Rerender(TRUE, stripe, clientSecret, FALSE)
               ELSE \* setProcessing(true); await stripe.createPaymentMethod(...)
                    /\ subs' = [subs EXCEPT ![s] =
                                   [NoSub EXCEPT !.pc = "createPaymentMethod",
                                                 !.exit = "running",
                                                 !.clientSecret = clientSecret,
                                                 !.totalAmount = TotalAmount(scholarship),
                                                 !.scholarship = scholarship]]
                    /\ processing' = TRUE
                    /\ Rerender(TRUE, stripe, clientSecret, TRUE)
    /\ UNCHANGED <<page, applicationPosts, applications, paymentPosts, payments,
                   toasts, navigations>>
    /\ UNCHANGED component

\* Variant: the methodError branch has no return and goes on to the
\* confirmation call.
MethodError_FallsThrough(s) ==
    /\ subs[s].pc = "createPaymentMethod"
    /\ \E m \in MethodMsgs :
          /\ toasts' = Append(toasts, [sub |-> s, message |-> MethodErrorToast(m)])
          /\ subs' = [subs EXCEPT ![s].pc = "confirmCardPayment",
                                  ![s].method = "error", ![s].message = m,
                                  ![s].usedSecret = subs[s].clientSecret]
    /\ processing' = FALSE
    /\ Rerender(mounted, stripe, clientSecret, FALSE)
    /\ UNCHANGED <<page, nsub, applicationPosts, applications, paymentPosts,
                   payments, navigations>>
    /\ UNCHANGED component

\* createPaymentMethod resolved with { error: methodError }:
\* toast.error(methodError.message); setProcessing(false); return; finally.
MethodError(s) ==
    /\ subs[s].pc = "createPaymentMethod"
    /\ \E m \in MethodMsgs :
          /\ toasts' = Append(toasts, [sub |-> s, message |-> MethodErrorToast(m)])
          /\ Leave(s, [subs[s] EXCEPT !.exit = "methodError", !.method = "error",
                                      !.message = m], FALSE, mounted)
    /\ UNCHANGED <<page, nsub, applicationPosts, applications, paymentPosts,
                   payments, navigations>>
    /\ UNCHANGED component

\* createPaymentMethod resolved with a paymentMethod: confirmCardPayment is
\* called with the clientSecret of the render that ran onSubmit.
MethodCreated(s) ==
    /\ subs[s].pc = "createPaymentMethod"
    /\ subs' = [subs EXCEPT ![s].pc = "confirmCardPayment", ![s].method = "ok",
                            ![s].usedSecret = subs[s].clientSecret]
    /\ UNCHANGED <<page, nsub, processing, applicationPosts, applications,
                   paymentPosts, payments, toasts, navigations>>
    /\ UNCHANGED rendered
    /\ UNCHANGED component

\* createPaymentMethod rejected.
MethodRejected(s) ==
    /\ subs[s].pc = "createPaymentMethod"
    /\ Catch(s, [subs[s] EXCEPT !.method = "rejected"])
    /\ UNCHANGED <<page, nsub, applicationPosts, applications, paymentPosts,
                   payments, navigations>>
    /\ UNCHANGED component

\* confirmCardPayment resolved with { error: confirmError }: the unpaid
\* application record is posted.
ConfirmError(s) ==
    /\ subs[s].pc = "confirmCardPayment"
    /\ \E m \in ConfirmMsgs :
          subs' = [subs EXCEPT ![s].pc = "postApplication", ![s].confirm = "error",
                               ![s].message = m]
    /\ applicationPosts' = PostApplication(s, UnpaidApplicationData(subs[s].scholarship))
    /\ UNCHANGED <<page, nsub, processing, applications, paymentPosts, payments,
                   toasts, navigations>>
    /\ UNCHANGED rendered
    /\ UNCHANGED component

\* confirmCardPayment resolved with paymentIntent.status === 'succeeded': the
\* paid application record is posted.
ConfirmSucceeded(s) ==
    /\ subs[s].pc = "confirmCardPayment"
    /\ \E pi \in PiIds :
          subs' = [subs EXCEPT ![s].pc = "postApplication",
                               ![s].confirm = "succeeded", ![s].paymentIntent = pi]
    /\ applicationPosts' = PostApplication(s, PaidApplicationData(subs[s].scholarship))
    /\ UNCHANGED <<page, nsub, processing, applications, paymentPosts, payments,
                   toasts, navigations>>
    /\ UNCHANGED rendered
    /\ UNCHANGED component

\* confirmCardPayment resolved without error and with another status
\* (requires_action, processing, ...): neither branch is taken; finally.
ConfirmOtherStatus(s) ==
    /\ subs[s].pc = "confirmCardPayment"
    /\ \E pi \in PiIds :
          Leave(s, [subs[s] EXCEPT !.exit = "notSucceeded", !.confirm = "other",
                                   !.paymentIntent = pi], Finally(processing), mounted)
    /\ UNCHANGED <<page, nsub, applicationPosts, applications, paymentPosts,
                   payments, toasts, navigations>>
    /\ UNCHANGED component

\* confirmCardPayment rejected.
ConfirmRejected(s) ==
    /\ subs[s].pc = "confirmCardPayment"
    /\ Catch(s, [subs[s] EXCEPT !.confirm = "rejected"])
    /\ UNCHANGED <<page, nsub, applicationPosts, applications, paymentPosts,
                   payments, navigations>>
    /\ UNCHANGED component

\* The requests of run s among the requests or records in `log`.
Of(log, s) == {i \in DOMAIN log : log[i].sub = s}

\* POST /applications accepted after a failed confirmation: the backend
\* stores the record; navigate to the failure view; finally.
UnpaidApplicationSaved(s) ==
    /\ subs[s].pc = "postApplication"
    /\ subs[s].confirm = "error"
    /\ \E i \in Of(applicationPosts, s) :
          applications' = Append(applications, applicationPosts[i])
    /\ navigations' = Append(navigations,
           [sub |-> s,
            state |-> FailedNavigation(subs[s].scholarship, subs[s].message)])
    /\ page' = "payment-failed"
    /\ Leave(s, [subs[s] EXCEPT !.exit = "failed"], Finally(processing), FALSE)
    /\ UNCHANGED <<nsub, applicationPosts, paymentPosts, payments, toasts>>
    /\ UNCHANGED component

\* POST /applications accepted after a successful confirmation: the backend
\* stores the record; the payment record is posted.
PaidApplicationSaved(s) ==
    /\ subs[s].pc = "postApplication"
    /\ subs[s].confirm = "succeeded"
    /\ \E i \in Of(applicationPosts, s) :
          applications' = Append(applications, applicationPosts[i])
    /\ paymentPosts' = Append(paymentPosts,
           [sub |-> s,
            data |-> PaymentData(subs[s].scholarship, subs[s].totalAmount,
                                 subs[s].paymentIntent)])
    /\ subs' = [subs EXCEPT ![s].pc = "postPayment"]
    /\ UNCHANGED <<page, nsub, processing, applicationPosts, payments, toasts,
                   navigations>>
    /\ UNCHANGED rendered
    /\ UNCHANGED component

\* POST /applications rejected: nothing is stored.
ApplicationRejected(s) ==
    /\ subs[s].pc = "postApplication"
    /\ Catch(s, subs[s])
    /\ UNCHANGED <<page, nsub, applicationPosts, applications, paymentPosts,
                   payments, navigations>>
    /\ UNCHANGED component

\* POST /payments accepted: the backend stores the record; navigate to the
\* success view; finally.
PaymentSaved(s) ==
    /\ subs[s].pc = "postPayment"
    /\ \E i \in Of(paymentPosts, s) :
          payments' = Append(payments, paymentPosts[i])
    /\ navigations' = Append(navigations,
           [sub |-> s,
            state |-> SuccessNavigation(subs[s].scholarship, subs[s].totalAmount,
                                        subs[s].paymentIntent)])
    /\ page' = "payment-success"
    /\ Leave(s, [subs[s] EXCEPT !.exit = "succeeded"], Finally(processing), FALSE)
    /\ UNCHANGED <<nsub, applicationPosts, applications, paymentPosts, toasts>>
    /\ UNCHANGED component

\* Variant: the navigation does not depend on the write being accepted.
PaymentRejected_Navigates(s) ==
    /\ subs[s].pc = "postPayment"
    /\ navigations' = Append(navigations,
           [sub |-> s,
            state |-> SuccessNavigation(subs[s].scholarship, subs[s].totalAmount,
                                        subs[s].paymentIntent)])
    /\ page' = "payment-success"
    /\ Leave(s, [subs[s] EXCEPT !.exit = "succeeded"], Finally(processing), FALSE)
    /\ UNCHANGED <<nsub, applicationPosts, applications, paymentPosts, payments,
                   toasts>>
    /\ UNCHANGED component

\* POST /payments rejected: nothing is stored.
PaymentRejected(s) ==
    /\ subs[s].pc = "postPayment"
    /\ Catch(s, subs[s])
    /\ UNCHANGED <<page, nsub, applicationPosts, applications, paymentPosts,
                   payments, navigations>>
    /\ UNCHANGED component

\* ------------------------------------------------------------ specification
IntentIds == 1 .. (MaxChanges + 1)

Next ==
    \/ ScholarshipLoaded
    \/ ScholarshipLoadFailed
    \/ ScholarshipChanged
    \/ StripeLoaded
    \/ CardElementMounted
    \/ \E id \in IntentIds : IntentSucceeded(id)
    \/ \E id \in IntentIds : IntentFailed(id)
    \/ Submit
    \/ \E s \in SubIds : MethodError(s)
    \/ \E s \in SubIds : MethodCreated(s)
    \/ \E s \in SubIds : MethodRejected(s)
    \/ \E s \in SubIds : ConfirmError(s)
    \/ \E s \in SubIds : ConfirmSucceeded(s)
    \/ \E s \in SubIds : ConfirmOtherStatus(s)
    \/ \E s \in SubIds : ConfirmRejected(s)
    \/ \E s \in SubIds : UnpaidApplicationSaved(s)
    \/ \E s \in SubIds : PaidApplicationSaved(s)
    \/ \E s \in SubIds : ApplicationRejected(s)
    \/ \E s \in SubIds : PaymentSaved(s)
    \/ \E s \in SubIds : PaymentRejected(s)

Spec == Init /\ [][Next]_vars

\* ------------------------------------------------------------- properties

Finished(s) == subs[s].pc = "done"

Count(log, s) == Cardinality(Of(log, s))

\* C1 as stated: every finished run of onSubmit that started the workflow
\* (reached createPaymentMethod) issued exactly one POST /applications.
C1_ExactlyOnePostPerSubmission ==
    \A s \in SubIds :
        Finished(s) /\ subs[s].exit /= "noCard" => Count(applicationPosts, s) = 1

\* C1 amended: a submission issues at most one POST /applications: exactly
\* one once confirmCardPayment has resolved with an error or with status
\* 'succeeded', none on every other path; the backend stores at most one
\* application record per submission.
C1_OnePostPerResolvedConfirmation ==
    \A s \in SubIds :
        /\ Count(applicationPosts, s) =
               IF subs[s].confirm \in {"error", "succeeded"} THEN 1 ELSE 0
        /\ Count(applications, s) <= Count(applicationPosts, s)

C1_Witness ==
    /\ nsub = 2
    /\ subs[1].exit = "methodError" /\ Count(applicationPosts, 1) = 0
    /\ Finished(2) /\ subs[2].confirm = "error" /\ Count(applicationPosts, 2) = 1

\* C2: every application record posted or stored carries applicationStatus
\* "pending" and a paymentStatus that matches what confirmCardPayment
\* returned to that submission: "paid" only after status 'succeeded',
\* "unpaid" only after an error.
C2_PaymentStatusMatchesConfirmation ==
    /\ \A i \in DOMAIN applicationPosts :
          LET r == applicationPosts[i] IN
          /\ r.data.applicationStatus = "pending"
          /\ r.data.paymentStatus \in {"paid", "unpaid"}
          /\ r.data.paymentStatus = "paid" => subs[r.sub].confirm = "succeeded"
          /\ r.data.paymentStatus = "unpaid" => subs[r.sub].confirm = "error"
    /\ \A i \in DOMAIN applications :
          \E j \in DOMAIN applicationPosts : applications[i] = applicationPosts[j]

C2_Witness ==
    \E i \in DOMAIN applications :
        /\ applications[i].data.paymentStatus = "paid"
        /\ subs[applications[i].sub].confirm = "succeeded"

\* C3 as stated: once a submission has finished, a payment record of that
\* attempt is stored if and only if a paid application record of that
\* attempt is stored.
C3_PaymentIffPaidApplication ==
    \A s \in SubIds :
        Finished(s) =>
            ((Of(payments, s) /= {}) <=>
             (\E i \in Of(applications, s) :
                  applications[i].data.paymentStatus = "paid"))

\* C4: while the form is on the page, the submit button is enabled exactly
\* when stripe is ready, a clientSecret is present and nothing is processing.
C4_SubmitEnabledIff ==
    mounted => (~submitDisabled <=> (stripe /\ clientSecret /= 0 /\ ~processing))

C4_Witness ==
    /\ mounted /\ ~submitDisabled
    /\ \E s \in SubIds : Finished(s)

\* C5: once every awaited call of every submission that set the processing
\* flag has resolved or rejected (no run of onSubmit is in flight), the
\* processing flag is false, whatever path the runs left by.
C5_ProcessingClearedOnExit ==
    (\A s \in SubIds : subs[s].pc \in {"none", "done"}) => ~processing

C5_Witness ==
    /\ \A s \in SubIds : subs[s].pc \in {"none", "done"}
    /\ \E s \in SubIds : subs[s].exit = "exception"
    /\ ~processing

\* C6: a submission whose createPaymentMethod returned an error has shown
\* exactly the provider's message, has finished, has issued no POST
\* /applications and no POST /payments, has not called confirmCardPayment
\* and has not navigated; right after it the form is still on the page with
\* the processing flag cleared.
C6_TokenizationErrorWritesNothing ==
    \A s \in SubIds :
        subs[s].method = "error" =>
            /\ Finished(s)
            /\ Count(toasts, s) = 1
            /\ \A i \in Of(toasts, s) : toasts[i].message = subs[s].message
            /\ subs[s].message \in MethodMsgs
            /\ Of(applicationPosts, s) = {} /\ Of(applications, s) = {}
            /\ Of(paymentPosts, s) = {} /\ Of(payments, s) = {}
            /\ subs[s].usedSecret = -1 /\ subs[s].confirm = "none"
            /\ Of(navigations, s) = {}
            /\ s = nsub => mounted /\ ~processing

C6_Witness ==
    \E s \in SubIds : subs[s].method = "error" /\ Count(toasts, s) = 1

GenericToast(s) ==
    /\ Count(toasts, s) = 1
    /\ \A i \in Of(toasts, s) : toasts[i].message = "Payment processing failed"

\* C7 as stated: a finished submission whose confirmCardPayment returned an
\* error has stored exactly one application record, with paymentStatus
\* "unpaid", stored no payment record, and navigated to the failure view with
\* the scholarship name and exactly the provider's message.
C7_ConfirmationErrorAlwaysRecordsAndNavigates ==
    \A s \in SubIds :
        Finished(s) /\ subs[s].confirm = "error" =>
            /\ Count(applications, s) = 1
            /\ \A i \in Of(applications, s) :
                  applications[i].data.paymentStatus = "unpaid"
            /\ Of(payments, s) = {}
            /\ \E n \in Of(navigations, s) :
                  navigations[n].state =
                      FailedNavigation(subs[s].scholarship, subs[s].message)

\* C7 amended: once confirmCardPayment has returned an error, the submission
\* has issued exactly one POST /applications, with paymentStatus "unpaid",
\* and issues no POST /payments.  If the backend accepts the POST, exactly one
\* unpaid application record is stored and the submission navigates once, to
\* /payment-failed, with the scholarship name and exactly the provider's
\* message; if the POST is rejected, nothing is stored, the generic failure
\* notification is shown and there is no navigation.
C7_ConfirmationErrorRecordsUnpaid ==
    \A s \in SubIds :
        subs[s].confirm = "error" =>
            /\ Count(applicationPosts, s) = 1
            /\ \A i \in Of(applicationPosts, s) :
                  applicationPosts[i].data.paymentStatus = "unpaid"
            /\ Of(paymentPosts, s) = {} /\ Of(payments, s) = {}
            /\ subs[s].message \in ConfirmMsgs
            /\ Finished(s) => subs[s].exit \in {"failed", "exception"}
            /\ ~Finished(s) => Of(applications, s) = {} /\ Of(navigations, s) = {}
            /\ subs[s].exit = "failed" =>
                  /\ Count(applications, s) = 1
                  /\ \A i \in Of(applications, s) :
                        applications[i].data.paymentStatus = "unpaid"
                  /\ Count(navigations, s) = 1
                  /\ \A n \in Of(navigations, s) :
                        /\ navigations[n].state.to = "/payment-failed"
                        /\ navigations[n].state.scholarshipName =
                               subs[s].scholarship.scholarshipName
                        /\ navigations[n].state.error = subs[s].message
                  /\ Of(toasts, s) = {}
            /\ subs[s].exit = "exception" =>
                  /\ Of(applications, s) = {}
                  /\ Of(navigations, s) = {}
                  /\ GenericToast(s)

C7_Witness ==
    \E s \in SubIds :
        /\ subs[s].confirm = "error" /\ subs[s].exit = "failed"
        /\ Count(applications, s) = 1 /\ Count(navigations, s) = 1

\* C8 as stated: a finished submission whose confirmCardPayment succeeded has
\* stored exactly one paid application record and exactly one payment record
\* with the provider's payment-intent id and the total, and navigated to the
\* success view with the same amount and transaction id.
C8_SuccessAlwaysRecordsAndNavigates ==
    \A s \in SubIds :
        Finished(s) /\ subs[s].confirm = "succeeded" =>
            /\ Count(applications, s) = 1
            /\ \A i \in Of(applications, s) :
                  applications[i].data.paymentStatus = "paid"
            /\ Count(payments, s) = 1
            /\ \A i \in Of(payments, s) :
                  /\ payments[i].data.transactionId = subs[s].paymentIntent
                  /\ payments[i].data.amount = TotalAmount(subs[s].scholarship)
            /\ \E n \in Of(navigations, s) :
                  /\ navigations[n].state.to = "/payment-success"
                  /\ navigations[n].state.amount = TotalAmount(subs[s].scholarship)
                  /\ navigations[n].state.transactionId = subs[s].paymentIntent

\* C8 amended: once confirmCardPayment has succeeded, the submission has
\* issued exactly one POST /applications, with paymentStatus "paid".  A POST
\* /payments is issued at most once and only after the backend stored that
\* application record; it carries the provider's payment-intent id and the
\* total of the render the submission started from.  The submission navigates
\* at most once, to /payment-success with the same amount and transaction id,
\* and only after the backend stored the payment record.  If either POST is
\* rejected, the generic failure notification is shown, no payment record is
\* stored and there is no navigation.
C8_SuccessRecordsInOrder ==
    \A s \in SubIds :
        subs[s].confirm = "succeeded" =>
            /\ Count(applicationPosts, s) = 1
            /\ \A i \in Of(applicationPosts, s) :
                  applicationPosts[i].data.paymentStatus = "paid"
            /\ Count(paymentPosts, s) <= 1
            /\ \A i \in Of(paymentPosts, s) :
                  /\ paymentPosts[i].data.transactionId = subs[s].paymentIntent
                  /\ paymentPosts[i].data.amount = TotalAmount(subs[s].scholarship)
            /\ Of(paymentPosts, s) /= {} => Count(applications, s) = 1
            /\ Of(payments, s) /= {} => Count(paymentPosts, s) = 1
            /\ Of(navigations, s) /= {} => Count(payments, s) = 1
            /\ Finished(s) => subs[s].exit \in {"succeeded", "exception"}
            /\ ~Finished(s) => Of(navigations, s) = {} /\ Of(payments, s) = {}
            /\ subs[s].exit = "succeeded" =>
                  /\ Count(applications, s) = 1
                  /\ Count(payments, s) = 1
                  /\ \A i \in Of(payments, s) : payments[i] \in
                        {paymentPosts[j] : j \in Of(paymentPosts, s)}
                  /\ Count(navigations, s) = 1
                  /\ \A n \in Of(navigations, s) :
                        /\ navigations[n].state.to = "/payment-success"
                        /\ navigations[n].state.scholarshipName =
                               subs[s].scholarship.scholarshipName
                        /\ navigations[n].state.universityName =
                               subs[s].scholarship.universityName
                        /\ navigations[n].state.amount =
                               TotalAmount(subs[s].scholarship)
                        /\ navigations[n].state.transactionId = subs[s].paymentIntent
                  /\ Of(toasts, s) = {}
            /\ subs[s].exit = "exception" =>
                  /\ Of(payments, s) = {}
                  /\ Of(navigations, s) = {}
                  /\ GenericToast(s)

C8_Witness ==
    \E s \in SubIds :
        /\ subs[s].confirm = "succeeded" /\ subs[s].exit = "succeeded"
        /\ Count(payments, s) = 1 /\ Count(navigations, s) = 1
        /\ subs[s].totalAmount = 2

\* C9 as stated: a submission that ended in the catch block (a rejected
\* provider call, POST /applications or POST /payments) has shown the generic
\* failure notification, left the processing flag cleared, and has no
\* application record and no payment record stored.
C9_ExceptionPersistsNothing ==
    \A s \in SubIds :
        subs[s].exit = "exception" =>
            /\ GenericToast(s)
            /\ s = nsub => ~processing
            /\ Of(applications, s) = {}
            /\ Of(payments, s) = {}

\* C10: in every step, a POST /create-payment-intent is issued exactly when
\* the form is on the page after the step, its total is greater than zero,
\* and the step mounted the form or changed the total; the request carries
\* that total.  No other step (a re-render, a submission, a response) issues
\* one.
C10_IntentPerTotalChange ==
    [][LET issued == Len(intentPosts') - Len(intentPosts)
           total == TotalAmount(scholarship')
       IN  /\ issued = IF /\ page' = "checkout"
                          /\ total > 0
                          /\ ~mounted \/ total /= TotalAmount(scholarship)
                       THEN 1 ELSE 0
           /\ issued = 1 => intentPosts'[Len(intentPosts')].amount = total
           /\ \A i \in DOMAIN intentPosts : intentPosts'[i] = intentPosts[i]]_vars

C10_Witness ==
    /\ Len(intentPosts) = 2
    /\ intentPosts[1].amount /= intentPosts[2].amount
    /\ \E s \in SubIds : Finished(s)

\* No request made, no handle, submit disabled, nothing submitted or written.
NothingPossible ==
    /\ intentPosts = <<>> /\ intentPending = {} /\ intentToasts = {}
    /\ clientSecret = 0
    /\ submitDisabled
    /\ nsub = 0 /\ \A s \in SubIds : subs[s].pc = "none"
    /\ applicationPosts = <<>> /\ applications = <<>>
    /\ paymentPosts = <<>> /\ payments = <<>>
    /\ navigations = <<>>

\* C11: while the total is 0 from the mount of the form on, no authorization
\* request is made, the handle stays empty, the submit button stays disabled
\* and no submission, charge, application record or payment record exists.
\* Stated per step: a step that mounts the form with total 0, or that keeps
\* the total at 0 from such a state, ends in such a state.
C11_ZeroTotalNeverSubmits ==
    [][(/\ page' = "checkout"
        /\ TotalAmount(scholarship') = 0
        /\ ~mounted \/ (TotalAmount(scholarship) = 0 /\ NothingPossible))
       => NothingPossible']_vars

C11_Witness ==
    /\ mounted /\ TotalAmount(scholarship) = 0
    /\ stripe /\ cardMounted /\ changes = 1
    /\ NothingPossible

\* The sum of two fees, a missing fee counting as 0.
FeeSum(s) ==
    (IF s.applicationFees = Missing THEN 0 ELSE s.applicationFees)
        + (IF s.serviceCharge = Missing THEN 0 ELSE s.serviceCharge)

\* C12: for the scholarship on the page the order summary and the pay button
\* show applicationFees + serviceCharge (a missing fee counting as 0); every
\* authorization request carries that sum for the scholarship it was issued
\* for, and every payment record and success navigation carries that sum for
\* the scholarship its submission was made with.
C12_TotalIsSumOfFees ==
    [][/\ page' = "checkout" =>
              /\ SummaryTotal(scholarship') = FeeSum(scholarship')
              /\ PayButtonTotal(scholarship') = FeeSum(scholarship')
       /\ Len(intentPosts') > Len(intentPosts) =>
              intentPosts'[Len(intentPosts')].amount = FeeSum(scholarship')
       /\ \A i \in DOMAIN paymentPosts' :
              paymentPosts'[i].data.amount =
                  FeeSum(subs'[paymentPosts'[i].sub].scholarship)
       /\ \A i \in DOMAIN payments' :
              payments'[i].data.amount = FeeSum(subs'[payments'[i].sub].scholarship)
       /\ \A n \in DOMAIN navigations' :
              navigations'[n].state.to = "/payment-success" =>
                  navigations'[n].state.amount =
                      FeeSum(subs'[navigations'[n].sub].scholarship)]_vars

C12_Witness ==
    /\ \E n \in DOMAIN navigations :
          /\ navigations[n].state.to = "/payment-success"
          /\ navigations[n].state.amount = 1
          /\ subs[navigations[n].sub].scholarship.applicationFees = Missing
    /\ payments /= <<>>

\* Run s of onSubmit has started and has not returned.
InFlight(s) == subs[s].pc \notin {"none", "done"}

\* C13: at most one run of onSubmit is in flight at any time, and while one
\* is in flight the processing flag is set and the submit button is disabled.
C13_OneSubmissionInFlight ==
    /\ Cardinality({s \in SubIds : InFlight(s)}) <= 1
    /\ (\E s \in SubIds : InFlight(s)) /\ mounted => processing /\ submitDisabled

C13_Witness ==
    /\ nsub = 2
    /\ Finished(1) /\ subs[1].exit = "exception"
    /\ InFlight(2) /\ subs[2].pc = "confirmCardPayment"

\* C14 as stated: once the latest authorization request has failed, the
\* submit button is disabled.
C14_FailedIntentDisablesSubmit ==
    mounted /\ intentPosts /= <<>> /\ Len(intentPosts) \in intentToasts
        => submitDisabled

\* C15 as stated (the handle of a resubmission): two consecutive submissions
\* made for the same scholarship, hence with no change of the total between
\* them, pass the same handle to confirmCardPayment.
C15_ResubmissionPassesSameHandle ==
    \A s \in SubIds :
        (/\ s + 1 \in SubIds
         /\ subs[s].usedSecret /= -1 /\ subs[s + 1].usedSecret /= -1
         /\ subs[s].scholarship = subs[s + 1].scholarship)
            => subs[s].usedSecret = subs[s + 1].usedSecret

\* C16: every POST /applications belongs to a submission whose tokenization
\* succeeded and whose confirmCardPayment call resolved (with an error or
\* with 'succeeded'); a submission that has not got past the confirmation
\* call has posted no application record.
C16_ApplicationAfterConfirmation ==
    /\ \A i \in DOMAIN applicationPosts :
          LET r == subs[applicationPosts[i].sub] IN
              /\ r.method = "ok"
              /\ r.usedSecret /= -1
              /\ r.confirm \in {"error", "succeeded"}
    /\ \A s \in SubIds :
          subs[s].pc \in {"none", "createPaymentMethod", "confirmCardPayment"}
              => Count(applicationPosts, s) = 0

C16_Witness ==
    /\ Finished(1) /\ subs[1].exit = "methodError"
    /\ Count(applicationPosts, 1) = 0
    /\ \E i \in DOMAIN applicationPosts :
          /\ applicationPosts[i].sub = 2
          /\ subs[2].confirm = "error"

\* C17 as stated: every run of onSubmit that set the processing flag and has
\* returned produced exactly one notification or navigation.
C17_ExactlyOneVisibleOutcome ==
    \A s \in SubIds :
        Finished(s) => Count(toasts, s) + Count(navigations, s) = 1

\* C18: a navigation to the success view is made only by a submission whose
\* paid application record and payment record are stored, a navigation to
\* the failure view only by one whose unpaid application record is stored,
\* and a submission that had a write rejected does not navigate.
C18_NavigationAfterPersistence ==
    /\ \A n \in DOMAIN navigations :
          LET s == navigations[n].sub IN
              IF navigations[n].state.to = "/payment-success"
              THEN /\ \E i \in Of(applications, s) :
                         applications[i].data.paymentStatus = "paid"
                   /\ Of(payments, s) /= {}
              ELSE /\ navigations[n].state.to = "/payment-failed"
                   /\ \E i \in Of(applications, s) :
                         applications[i].data.paymentStatus = "unpaid"
    /\ \A s \in SubIds :
          Finished(s) /\ subs[s].exit = "exception" => Count(navigations, s) = 0

C18_Witness ==
    /\ \E n \in DOMAIN navigations :
          /\ navigations[n].state.to = "/payment-failed"
          /\ navigations[n].sub = 2
    /\ subs[1].exit = "exception" /\ subs[1].confirm = "succeeded"
    /\ Count(applications, 1) = 1 /\ Count(paymentPosts, 1) = 1
    /\ Count(payments, 1) = 0

\* C19 as stated: the handle a submission passes to confirmCardPayment was
\* issued for the total that the submission writes to its payment record.
C19_HandleIssuedForCurrentTotal ==
    \A s \in SubIds :
        subs[s].usedSecret > 0
            => intentPosts[subs[s].usedSecret].amount = subs[s].totalAmount

=============================================================================
